---------------------------- MODULE Spec2Model ----------------------------
(***************************************************************************)
(* Model of the Spotify PKCE login flow (utils/spotifyAuth, the two        *)
(* callback pages) and of the playback widget of the terminal desktop      *)
(* (TerminalWindow in the main page).                                      *)
(*                                                                         *)
(* localStorage is shared by everything; the login flow and the widget     *)
(* are checked under seven specifications over the same variables:         *)
(* SpecAuth (login and callbacks), SpecNavigation (where the callback      *)
(* pages go, with fairness), SpecToken (token lifetime), SpecPlay          *)
(* (transport buttons), SpecSong (track list), SpecPlayback (both) and     *)
(* SpecVolume (slider).                                                    *)
(***************************************************************************)
EXTENDS Integers, Sequences, FiniteSets, Bags, TLC

(***************************************************************************)
(* Bounds of the model.                                                    *)
(***************************************************************************)
MaxClock == 1000
TickMs == 500
MaxLogins == 2
MaxExchanges == 2
MaxCalls == 2
MaxLoads == 1
MaxPlayers == 1

(***************************************************************************)
(* Values.  getItem() of a missing key and URLSearchParams.get() of a      *)
(* missing parameter give null; a parameter written "error=" gives the     *)
(* empty string, which is present but falsy.                               *)
(***************************************************************************)
NULL == "<null>"

Truthy(s) == s # NULL /\ s # ""

\* Math.random() draws: the verifier and state alphabets are abstracted to
\* two values each, so that equal draws (collisions) also happen.
Verifiers == {"V1", "V2"}
States == {"S1", "S2"}

Codes == {NULL, "abc123"}
Errors == {NULL, "", "access_denied"}
StateParams == {NULL, "S1", "S2"}
Tokens == {"tok1", "tok2"}

\* A response field that may be missing is a sequence of length 0 or 1.
None == <<>>
Some(x) == <<x>>

\* expires_in of the token response, in seconds (undefined, 0, 1).
ExpiresIns == {None, Some(0), Some(1)}

(***************************************************************************)
(* Number.prototype.toString() and its inverse: the expiration time is     *)
(* persisted as the decimal digits of the epoch milliseconds.              *)
(***************************************************************************)
RECURSIVE NumToString(_)
NumToString(n) ==
  IF n < 10 THEN <<n>> ELSE Append(NumToString(n \div 10), n % 10)

RECURSIVE ParseNum(_)
ParseNum(s) ==
  IF Len(s) = 0 THEN 0
  ELSE 10 * ParseNum(SubSeq(s, 1, Len(s) - 1)) + s[Len(s)]

\* the value of a key that holds no number string
NoNumber == <<>>

VARIABLES
  localStorage,    \* the spotify_* keys of window.localStorage
  now,             \* Date.now(), epoch milliseconds
  logins,          \* getSpotifyLoginUrl calls suspended on the digest
  exchanges,       \* getAccessToken calls suspended on the fetch
  lastCallback,    \* history: the most recent callback page run
  csrfConsumed,    \* history: a handleCallback ran since the last state was stored
  lastExchange,    \* history: the most recent completed token exchange
  lastLogin,       \* history: what the most recent getSpotifyLoginUrl stored
  authError,       \* history: an authentication error since the last login
  observed,        \* history: the navigation of one callback page run
  mounted,         \* the music window is open
  isSpotifyLoggedIn,
  player,          \* component state `player` (set after connect succeeds)
  isPlaying,
  currentSongIndex,
  shuffledPlaylist,
  globalIsPlaying,
  globalCurrentSongIndex,
  globalShuffledPlaylist,
  onSdkReady,      \* window.onSpotifyWebPlaybackSDKReady: the closure it holds
  scriptPending,   \* an SDK script tag was appended and has not run yet
  listeners,       \* Spotify.Player objects, each with the closure of its listeners
  calls,           \* Web API requests of the widget in flight
  skipRun,         \* history: the run of consecutive skipNext completions
  volume,          \* component state `volume`
  volumeRequest,   \* the most recent spotifyApi.setVolume() request
  shuffleLog,      \* history: what loadPlaylist did with the cached order
  selectLog        \* history: the track selection written by the last step

authVars == <<localStorage, now, logins, exchanges, lastCallback, csrfConsumed,
              lastExchange, lastLogin, authError, observed>>
uiVars == <<mounted, isSpotifyLoggedIn, player, isPlaying, currentSongIndex,
            shuffledPlaylist>>
globalVars == <<globalIsPlaying, globalCurrentSongIndex, globalShuffledPlaylist>>
sdkVars == <<onSdkReady, scriptPending, listeners>>
callVars == <<calls, skipRun>>
volumeVars == <<volume, volumeRequest>>
logVars == <<shuffleLog, selectLog>>
playVars == <<uiVars, globalVars, sdkVars, callVars, volumeVars, logVars>>
vars == <<authVars, playVars>>

(***************************************************************************)
(* utils/spotifyAuth                                                       *)
(***************************************************************************)
EmptyStorage ==
  [spotify_auth_state |-> NULL,
   spotify_code_verifier |-> NULL,
   spotify_access_token |-> NULL,
   spotify_token_expiration |-> NoNumber,
   spotify_device_id |-> NULL]

NoCallback ==
  [result |-> "none", replay |-> FALSE, given |-> FALSE, stored |-> FALSE]

NoExchange ==
  [result |-> "none", token |-> NULL, expiresIn |-> None, at |-> 0]

\* no callback page run is observed
NoPage == [page |-> "none", pc |-> "none", branch |-> "none", frame |-> <<>>]

\* prev is the state that the login before the most recent one stored
NoLogin == [verifier |-> NULL, state |-> NULL, prev |-> NULL]

\* const possible = 'ABC...XYZabc...xyz0123456789-._~'
possible_Base64 ==
  <<"A", "B", "C", "D", "E", "F", "G", "H", "I", "J", "K", "L", "M", "N",
    "O", "P", "Q", "R", "S", "T", "U", "V", "W", "X", "Y", "Z", "a", "b",
    "c", "d", "e", "f", "g", "h", "i", "j", "k", "l", "m", "n", "o", "p",
    "q", "r", "s", "t", "u", "v", "w", "x", "y", "z", "0", "1", "2", "3",
    "4", "5", "6", "7", "8", "9", "+", "/">>

possible ==
  <<"A", "B", "C", "D", "E", "F", "G", "H", "I", "J", "K", "L", "M", "N",
    "O", "P", "Q", "R", "S", "T", "U", "V", "W", "X", "Y", "Z", "a", "b",
    "c", "d", "e", "f", "g", "h", "i", "j", "k", "l", "m", "n", "o", "p",
    "q", "r", "s", "t", "u", "v", "w", "x", "y", "z", "0", "1", "2", "3",
    "4", "5", "6", "7", "8", "9", "-", ".", "_", "~">>

\* generateCodeVerifier(128)
VerifierLength == 128

\* Math.floor(Math.random() * possible.length) in iteration i of the call
\* that produced verifier v: V1 and V2 name two runs of the generator, which
\* between them draw every index 0..possible.length-1
Draw(v, i) ==
  IF v = "V1" THEN (7 * i) % Len(possible)
  ELSE Len(possible) - 1 - ((5 * i) % Len(possible))

\* String.prototype.charAt: "" outside the string
charAt(s, k) == IF k \in 0..(Len(s) - 1) THEN s[k + 1] ELSE ""

\* text after the loop: iteration i appends possible.charAt(...), and an
\* appended "" adds no character
generateCodeVerifierText(length, v) ==
  SelectSeq([i \in 1..length |-> charAt(possible, Draw(v, i))],
            LAMBDA ch : ch # "")

\* the characters of the verifiers that V1 and V2 stand for
CodeVerifierText ==
  [v \in Verifiers |-> generateCodeVerifierText(VerifierLength, v)]

\* generateCodeVerifier(128): one random draw of the alphabet per character
generateCodeVerifier == Verifiers

\* generateRandomString(16)
generateRandomString == States

\* getSpotifyLoginUrl up to the await of generateCodeChallenge; the frame
\* of the suspended call holds codeVerifier
BeginLogin ==
  /\ Cardinality(logins) < MaxLogins
  /\ \E v \in generateCodeVerifier :
       logins' = logins \cup {v}
  /\ UNCHANGED <<localStorage, now, exchanges, lastCallback, csrfConsumed,
                 lastExchange, lastLogin, authError, observed>>
  /\ UNCHANGED playVars

\* localStorage.setItem of the verifier and of the state
StorePending_StateOnly(ls, v, s) == [ls EXCEPT !.spotify_auth_state = s]

StorePending_KeepPending(ls, v, s) ==
  IF ls.spotify_auth_state # NULL THEN ls
  ELSE [ls EXCEPT !.spotify_code_verifier = v, !.spotify_auth_state = s]

StorePending(ls, v, s) ==
  [ls EXCEPT !.spotify_code_verifier = v, !.spotify_auth_state = s]

\* getSpotifyLoginUrl after the digest resolved
LoginResume ==
  /\ \E v \in logins : \E s \in generateRandomString :
       /\ localStorage' = StorePending(localStorage, v, s)
       /\ logins' = logins \ {v}
       /\ lastLogin' = [verifier |-> v, state |-> s,
                        prev |-> lastLogin.state]
  /\ csrfConsumed' = FALSE
  /\ UNCHANGED <<now, exchanges, lastCallback, lastExchange, authError,
                 observed>>
  /\ UNCHANGED playVars

\* localStorage.removeItem('spotify_auth_state')
ClearStoredState_Keep(ls) == ls

ClearStoredState(ls) == [ls EXCEPT !.spotify_auth_state = NULL]

\* state === null || state !== storedState
StateMismatch_NullOnly(state, storedState) == state = NULL

StateMismatch_OnlyWhenStored(state, storedState) ==
  state = NULL \/ (storedState # NULL /\ state # storedState)

StateMismatch(state, storedState) == state = NULL \/ state # storedState

\* if (error)
ErrorPresent(error) == Truthy(error)

\* if (code)
CodePresent(code) == Truthy(code)

\* if (!codeVerifier)
VerifierMissing(ls) == ~Truthy(ls.spotify_code_verifier)

\* The synchronous part of handleCallback (and of getAccessToken, which it
\* calls before anything suspends): the branch taken.
HandleCallbackResult(ls, code, state, error) ==
  IF StateMismatch(state, ls.spotify_auth_state) THEN "csrf-mismatch"
  ELSE IF ErrorPresent(error) THEN "provider-rejected"
  ELSE IF ~CodePresent(code) THEN "missing-code"
  ELSE IF VerifierMissing(ls) THEN "missing-verifier"
  ELSE "exchanging"

\* The frame of a handleCallback call suspended in getAccessToken on the
\* fetch of the token endpoint.
Frame(ls, code, state, error) ==
  [code |-> code, state |-> state, error |-> error,
   codeVerifier |-> ls.spotify_code_verifier]

\* handleCallback(params): storage and suspended fetch
HandleCallback(code, state, error) ==
  LET r == HandleCallbackResult(localStorage, code, state, error) IN
  /\ localStorage' = ClearStoredState(localStorage)
  /\ exchanges' =
       IF r = "exchanging"
       THEN exchanges \cup {Frame(localStorage, code, state, error)}
       ELSE exchanges
  /\ lastCallback' =
       [result |-> r,
        replay |-> /\ csrfConsumed
                   /\ \E x \in exchanges :
                        x.code = code /\ x.state = state /\ x.error = error,
        given |-> state # NULL,
        stored |-> localStorage.spotify_auth_state # NULL]
  /\ csrfConsumed' = TRUE

\* The page returned before calling handleCallback.
PageOnly(r) ==
  /\ lastCallback' = [NoCallback EXCEPT !.result = r]
  /\ UNCHANGED <<localStorage, exchanges, csrfConsumed>>

\* app/callback: the checks of processCallback before it calls handleCallback
CallbackPageBranch(ls, code, error) ==
  IF Truthy(error) THEN "page-error"
  ELSE IF ~Truthy(code) THEN "page-no-code"
  ELSE IF ~Truthy(ls.spotify_code_verifier) THEN "page-no-verifier"
  ELSE "handleCallback"

\* app/callback: processCallback, up to the await of handleCallback
CallbackPage ==
  /\ Cardinality(exchanges) < MaxExchanges
  /\ \E code \in Codes, state \in StateParams, error \in Errors :
       LET b == CallbackPageBranch(localStorage, code, error) IN
       IF b = "handleCallback"
       THEN HandleCallback(code, state, error)
       ELSE PageOnly(b)
  /\ UNCHANGED <<now, logins, lastExchange, lastLogin, authError, observed>>
  /\ UNCHANGED playVars

\* app/spotify-callback: the effect runs handleCallback when there is a hash
SpotifyCallbackPageBranch(hash) ==
  IF hash THEN "handleCallback" ELSE "page-no-hash"

\* app/spotify-callback: the effect, up to the promise of handleCallback
SpotifyCallbackPage ==
  /\ Cardinality(exchanges) < MaxExchanges
  /\ \E hash \in BOOLEAN :
       LET b == SpotifyCallbackPageBranch(hash) IN
       IF b = "handleCallback"
       THEN \E code \in Codes, state \in StateParams, error \in Errors :
              HandleCallback(code, state, error)
       ELSE PageOnly(b)
  /\ UNCHANGED <<now, logins, lastExchange, lastLogin, authError, observed>>
  /\ UNCHANGED playVars

\* app/callback after `await handleCallback(searchParams)`: router.push('/')
\* at once with a token, setTimeout(() => router.push('/'), 3000) without
CallbackPageNavigation_StayOnFailure(got) == IF got THEN "home" ELSE "error"

CallbackPageNavigation(got) == IF got THEN "home" ELSE "timer"

\* app/spotify-callback: the .then of handleCallback ends in router.push('/')
SpotifyCallbackPageNavigation(got) == "home"

PageNavigation(page, got) ==
  IF page = "callback" THEN CallbackPageNavigation(got)
  ELSE SpotifyCallbackPageNavigation(got)

\* Where a page run stands when its effect returns: branch b of the page, and
\* result r of handleCallback when the page called it.  A page whose
\* handleCallback is suspended on the fetch waits for it; a handleCallback
\* that returned null without a fetch is continued at once.
PageRun(page, b, r, frame) ==
  IF b = "handleCallback" /\ r = "exchanging"
  THEN [page |-> page, pc |-> "awaiting", branch |-> r, frame |-> <<frame>>]
  ELSE IF b = "handleCallback"
  THEN [page |-> page, pc |-> PageNavigation(page, FALSE), branch |-> r,
        frame |-> <<>>]
  ELSE [page |-> page,
        pc |-> IF page = "callback" THEN "timer" ELSE "home",
        branch |-> b, frame |-> <<>>]

\* one run of app/callback whose navigation is followed; a new run is
\* followed once the one before it has arrived at '/'
ObservedCallbackPage ==
  /\ observed.pc \in {"none", "home"}
  /\ Cardinality(exchanges) < MaxExchanges
  /\ \E code \in Codes, state \in StateParams, error \in Errors :
       LET b == CallbackPageBranch(localStorage, code, error)
           r == HandleCallbackResult(localStorage, code, state, error)
       IN
       /\ IF b = "handleCallback"
          THEN HandleCallback(code, state, error)
          ELSE PageOnly(b)
       /\ observed' = PageRun("callback", b, r,
                              Frame(localStorage, code, state, error))
  /\ UNCHANGED <<now, logins, lastExchange, lastLogin, authError>>
  /\ UNCHANGED playVars

\* one run of app/spotify-callback whose navigation is followed
ObservedSpotifyCallbackPage ==
  /\ observed.pc \in {"none", "home"}
  /\ Cardinality(exchanges) < MaxExchanges
  /\ \E hash \in BOOLEAN :
     \E code \in Codes, state \in StateParams, error \in Errors :
       LET b == SpotifyCallbackPageBranch(hash)
           r == HandleCallbackResult(localStorage, code, state, error)
       IN
       /\ IF b = "handleCallback"
          THEN HandleCallback(code, state, error)
          ELSE PageOnly(b)
       /\ observed' = PageRun("spotify-callback", b, r,
                              Frame(localStorage, code, state, error))
  /\ UNCHANGED <<now, logins, lastExchange, lastLogin, authError>>
  /\ UNCHANGED playVars

\* the callback of setTimeout(() => router.push('/'), 3000)
NavigationTimer ==
  /\ observed.pc = "timer"
  /\ observed' = [observed EXCEPT !.pc = "home"]
  /\ UNCHANGED <<localStorage, now, logins, exchanges, lastCallback,
                 csrfConsumed, lastExchange, lastLogin, authError>>
  /\ UNCHANGED playVars

\* What a callback page leaves behind when it ran branch b with these
\* parameters: whether a token request was sent, and the storage.
PageOutcome(b, ls, code, state, error) ==
  IF b = "handleCallback"
  THEN [exchange |-> HandleCallbackResult(ls, code, state, error) = "exchanging",
        storage |-> ClearStoredState(ls)]
  ELSE [exchange |-> FALSE, storage |-> ls]

\* data.expires_in || 3600
DefaultExpiresIn == 3600

ExpiresInOrDefault(e) ==
  IF e = None \/ e = Some(0) THEN DefaultExpiresIn ELSE e[1]

\* Date.now() + (expiresIn * 1000)
ExpirationTime(t, e) == t + ExpiresInOrDefault(e) * 1000

\* the two setItem calls of getAccessToken
StoreToken(ls, tok, t, e) ==
  [ls EXCEPT !.spotify_token_expiration = NumToString(ExpirationTime(t, e)),
             !.spotify_access_token = tok]

\* storage when getAccessToken returns: written only on the success path
AfterExchange_ClearOnFailure(ls, got, tok, t, e) ==
  IF got THEN StoreToken(ls, tok, t, e)
  ELSE [ls EXCEPT !.spotify_access_token = NULL,
                  !.spotify_token_expiration = NoNumber]

AfterExchange(ls, got, tok, t, e) ==
  IF got THEN StoreToken(ls, tok, t, e) ELSE ls

\* The token endpoint answered (or the fetch threw): the rest of
\* getAccessToken, the return of handleCallback and the continuation of the
\* page, which run back to back as promise reactions.  The .then of the
\* spotify-callback page stores the same token once more.
ExchangeComplete ==
  /\ \E x \in exchanges :
     \E ok \in BOOLEAN, tok \in Tokens \cup {NULL}, e \in ExpiresIns :
       LET got == ok /\ Truthy(tok) IN
       /\ exchanges' = exchanges \ {x}
       /\ localStorage' = AfterExchange(localStorage, got, tok, now, e)
       /\ lastExchange' =
            IF got
            THEN [result |-> "ok", token |-> tok, expiresIn |-> e,
                  at |-> now]
            ELSE [result |-> IF ok THEN "no-token" ELSE "exchange-failed",
                  token |-> NULL, expiresIn |-> None, at |-> 0]
       /\ authError' = (authError /\ ~got)
       /\ observed' =
            IF observed.pc = "awaiting" /\ observed.frame = <<x>>
            THEN [observed EXCEPT
                    !.pc = PageNavigation(observed.page, got),
                    !.branch = IF got THEN "ok"
                               ELSE IF ok THEN "no-token"
                               ELSE "exchange-failed"]
            ELSE observed
  /\ UNCHANGED <<now, logins, lastCallback, csrfConsumed, lastLogin>>
  /\ UNCHANGED playVars

\* time passes
Tick ==
  /\ now + TickMs <= MaxClock
  /\ now' = now + TickMs
  /\ UNCHANGED <<localStorage, logins, exchanges, lastCallback, csrfConsumed,
                 lastExchange, lastLogin, authError, observed>>
  /\ UNCHANGED playVars

(***************************************************************************)
(* The music window (TerminalWindow with win.type = "music")               *)
(***************************************************************************)
\* Bounds of the widget model.
NumTracks == 2

\* (prev + 1) % 0 and anything computed from it
NaN == -1

Statuses == {200, 401, 403, 404, 500}

Tracks == 1..NumTracks

\* the items of the playlist response; 0 is an item without a track object
FullItems == [i \in 1..NumTracks |-> i]
PlaylistItems == {FullItems, <<0>> \o FullItems, <<>>}

Range(s) == {s[i] : i \in 1..Len(s)}

Shuffles(s) ==
  {p \in [1..Len(s) -> Range(s)] : \A i, j \in 1..Len(s) : p[i] = p[j] => i = j}

\* let globalIsPlaying = false; let globalCurrentSongIndex = 0;
\* let globalShuffledPlaylist = []
NoClosure == [set |-> FALSE, playlist |-> <<>>, index |-> 0, live |-> FALSE]

NoRun == [active |-> FALSE, expect |-> 0]

Unlive(c) == [c EXCEPT !.live = FALSE]

\* the requests in flight after their component was unmounted
UnliveAll(b) ==
  [d \in {Unlive(c) : c \in BagToSet(b)} |->
     CopiesIn(d, b) + CopiesIn([d EXCEPT !.live = TRUE], b)]

\* useState(50)
InitialVolume == 50

\* spotifyApi.setVolume(percent): the answer is only logged, so the request
\* is kept as the last one sent
NoVolumeRequest == [sent |-> FALSE, percent |-> 0]

VolumeRequest(percent) == [sent |-> TRUE, percent |-> percent]

\* shuffleLog: an order was computed by some load; the step just taken was
\* a load that took the cached order
NoShuffle == [computed |-> FALSE, reused |-> FALSE]

\* selectLog: when the step just taken wrote the track selection of a
\* request that was overtaken by a click on another row, the index of the
\* request and the index of that click
NoSelect == [index |-> -1, newer |-> -1]

Selected(c) ==
  IF c.newer = -1 THEN NoSelect ELSE [index |-> c.index, newer |-> c.newer]

\* the step writes no track selection
NoSelection == selectLog' = NoSelect

\* the step is not a load that takes the cached order
NoReload == shuffleLog' = [shuffleLog EXCEPT !.reused = FALSE]

NoLog == NoSelection /\ NoReload

\* The music window opens: the component's initial state and its
\* "Initialize Spotify" effect.
OpenMusicWindow ==
  /\ ~mounted
  /\ mounted' = TRUE
  /\ isPlaying' = globalIsPlaying
  /\ currentSongIndex' = globalCurrentSongIndex
  /\ shuffledPlaylist' = globalShuffledPlaylist
  /\ player' = FALSE
  /\ IF Truthy(localStorage.spotify_access_token)
     THEN /\ isSpotifyLoggedIn' = TRUE
          /\ scriptPending' = TRUE
          /\ onSdkReady' = [set |-> TRUE, playlist |-> globalShuffledPlaylist,
                            index |-> globalCurrentSongIndex, live |-> TRUE]
     ELSE /\ isSpotifyLoggedIn' = FALSE
          /\ UNCHANGED <<scriptPending, onSdkReady>>
  /\ skipRun' = NoRun
  /\ UNCHANGED <<listeners, calls, globalVars, authVars>>
  /\ volume' = InitialVolume
  /\ UNCHANGED volumeRequest
  /\ NoLog

\* closeWindow: the component is unmounted; its player, its listeners and
\* its requests in flight stay, and their setState calls do nothing.
CloseMusicWindow ==
  /\ mounted
  /\ mounted' = FALSE
  /\ isSpotifyLoggedIn' = FALSE
  /\ player' = FALSE
  /\ isPlaying' = FALSE
  /\ currentSongIndex' = 0
  /\ shuffledPlaylist' = <<>>
  /\ onSdkReady' = Unlive(onSdkReady)
  /\ listeners' = {Unlive(l) : l \in listeners}
  /\ calls' = UnliveAll(calls)
  /\ skipRun' = NoRun
  /\ UNCHANGED <<scriptPending, globalVars, authVars>>
  /\ volume' = InitialVolume
  /\ UNCHANGED volumeRequest
  /\ NoLog

\* An SDK script ran: window.onSpotifyWebPlaybackSDKReady creates a player
\* and registers its listeners.  Every open of the window appends one more
\* script tag, so further scripts may still be pending afterwards.
SdkReady ==
  /\ scriptPending
  /\ onSdkReady.set
  /\ Cardinality(listeners) < MaxPlayers
  /\ scriptPending' \in BOOLEAN
  /\ listeners' = listeners \cup {[playlist |-> onSdkReady.playlist,
                                   index |-> onSdkReady.index,
                                   live |-> onSdkReady.live]}
  /\ UNCHANGED <<onSdkReady, uiVars, globalVars, callVars, authVars>>
  /\ UNCHANGED volumeVars
  /\ NoLog

\* player.connect() resolved with success: setPlayer(player)
Connected ==
  /\ mounted
  /\ ~player
  /\ \E l \in listeners : l.live
  /\ player' = TRUE
  /\ UNCHANGED <<mounted, isSpotifyLoggedIn, isPlaying, currentSongIndex,
                 shuffledPlaylist>>
  /\ UNCHANGED <<globalVars, sdkVars, callVars, authVars>>
  /\ UNCHANGED volumeVars
  /\ NoLog

\* localStorage.removeItem('spotify_access_token')
ForgetToken(ls) == [ls EXCEPT !.spotify_access_token = NULL]

\* the authentication_error listener of a player
AuthenticationError ==
  /\ \E l \in listeners :
       /\ localStorage' = ForgetToken(localStorage)
       /\ isSpotifyLoggedIn' = IF l.live THEN FALSE ELSE isSpotifyLoggedIn
  /\ authError' = TRUE
  /\ UNCHANGED <<now, logins, exchanges, lastCallback, csrfConsumed,
                 lastExchange, lastLogin, observed>>
  /\ UNCHANGED <<mounted, player, isPlaying, currentSongIndex,
                 shuffledPlaylist>>
  /\ UNCHANGED <<globalVars, sdkVars, callVars>>
  /\ UNCHANGED volumeVars
  /\ NoLog

(***************************************************************************)
(* Web API requests of the widget.  A request in flight is the closure of  *)
(* its promise callbacks: the handler's locals and the component state of  *)
(* the render that issued it.                                              *)
(***************************************************************************)
authRest ==
  <<now, logins, exchanges, lastCallback, csrfConsumed, lastExchange, lastLogin,
    observed>>

\* the requests in flight are a bag of closures
Add(c) == calls (+) SetToBag({c})

Remove(c) == calls (-) SetToBag({c})

Replace(c, d) == (calls (-) SetToBag({c})) (+) SetToBag({d})

Handlers == {"pause", "play", "next", "prev", "song"}

InFlight(ops) ==
  BagCardinality([c \in {d \in BagToSet(calls) : d.op \in ops} |->
                    CopiesIn(c, calls)])

NewCall(op, pc) ==
  [op |-> op, pc |-> pc, live |-> TRUE, index |-> 0, len |-> 0,
   trackId |-> 0, dev |-> NULL, fresh |-> <<>>, reresolves |-> 0,
   retries |-> 0, newer |-> -1]

Device(id, active) == [id |-> id, is_active |-> active]

\* the answers of getMyDevices
DeviceLists ==
  {<<>>,
   <<Device("web", FALSE)>>,
   <<Device("web", FALSE), Device("d1", TRUE)>>}

DeviceResponses == [ok : BOOLEAN, devices : DeviceLists]

\* devices.find(device => device.is_active)?.id || null
RECURSIVE ActiveDeviceId(_)
ActiveDeviceId(devices) ==
  IF Len(devices) = 0 THEN NULL
  ELSE IF devices[1].is_active THEN devices[1].id
  ELSE ActiveDeviceId(Tail(devices))

\* the button row and the track list are rendered for a logged-in widget
ControlsShown == mounted /\ isSpotifyLoggedIn

\* if (player) { const token = ...; if (token) {
HasPlayerAndToken == player /\ Truthy(localStorage.spotify_access_token)

\* a setState call of a request issued by the mounted component
SetState(c, old, new) == IF c.live THEN new ELSE old

\* an unauthenticated (401) answer is an authentication error
Unauthenticated(st) == st = 401

\* handlePlayPause, up to the request
PlayPauseClick ==
  /\ ControlsShown
  /\ HasPlayerAndToken
  /\ InFlight(Handlers) < MaxCalls
  /\ calls' = Add(IF isPlaying THEN NewCall("pause", "request")
                            ELSE NewCall("play", "request"))
  /\ UNCHANGED <<skipRun, uiVars, globalVars, sdkVars, authVars>>
  /\ UNCHANGED volumeVars
  /\ NoLog

\* spotifyApi.pause() settled: both callbacks set the flag to false
PauseDone ==
  /\ \E c \in BagToSet(calls) : \E st \in Statuses :
       /\ c.op = "pause"
       /\ isPlaying' = SetState(c, isPlaying, FALSE)
       /\ globalIsPlaying' = FALSE
       /\ calls' = Remove(c)
       /\ authError' = (authError \/ Unauthenticated(st))
  /\ UNCHANGED <<mounted, isSpotifyLoggedIn, player, currentSongIndex,
                 shuffledPlaylist, globalCurrentSongIndex,
                 globalShuffledPlaylist, skipRun, localStorage>>
  /\ UNCHANGED <<sdkVars, authRest>>
  /\ UNCHANGED volumeVars
  /\ NoLog

\* spotifyApi.play() settled (the resume of handlePlayPause)
PlayDone ==
  /\ \E c \in BagToSet(calls) : \E st \in Statuses :
       /\ c.op = "play" /\ c.pc = "request"
       /\ IF st = 200
          THEN /\ isPlaying' = SetState(c, isPlaying, TRUE)
               /\ globalIsPlaying' = TRUE
               /\ calls' = Remove(c)
          ELSE IF st = 404
          THEN /\ calls' = Replace(c, [c EXCEPT !.pc = "devices",
                                                 !.reresolves =
                                                    c.reresolves + 1])
               /\ UNCHANGED <<isPlaying, globalIsPlaying>>
          ELSE /\ calls' = Remove(c)
               /\ UNCHANGED <<isPlaying, globalIsPlaying>>
       /\ authError' = (authError \/ Unauthenticated(st))
  /\ UNCHANGED <<mounted, isSpotifyLoggedIn, player, currentSongIndex,
                 shuffledPlaylist, globalCurrentSongIndex,
                 globalShuffledPlaylist, skipRun, localStorage>>
  /\ UNCHANGED <<sdkVars, authRest>>
  /\ UNCHANGED volumeVars
  /\ NoLog

\* if (devices.length > 0) { const deviceId = devices[0].id
FirstDevice(devices) ==
  IF Len(devices) > 0 THEN devices[1].id ELSE NULL

\* getMyDevices() settled in the 404 branch of handlePlayPause: transfer
\* the playback to devices[0]
PlayDevices ==
  /\ \E c \in BagToSet(calls) : \E r \in DeviceResponses :
       LET d == IF r.ok THEN FirstDevice(r.devices) ELSE NULL IN
       /\ c.op = "play" /\ c.pc = "devices"
       /\ calls' = IF Truthy(d)
                   THEN Replace(c, [c EXCEPT !.pc = "transfer",
                                              !.dev = d,
                                              !.fresh = r.devices,
                                              !.retries = c.retries + 1])
                   ELSE Remove(c)
  /\ UNCHANGED <<skipRun, uiVars, globalVars, sdkVars, authVars>>
  /\ UNCHANGED volumeVars
  /\ NoLog

\* transferMyPlayback() settled
TransferDone ==
  /\ \E c \in BagToSet(calls) : \E st \in Statuses :
       /\ c.op = "play" /\ c.pc = "transfer"
       /\ IF st = 200
          THEN /\ isPlaying' = SetState(c, isPlaying, TRUE)
               /\ globalIsPlaying' = TRUE
          ELSE UNCHANGED <<isPlaying, globalIsPlaying>>
       /\ calls' = Remove(c)
       /\ authError' = (authError \/ Unauthenticated(st))
  /\ UNCHANGED <<mounted, isSpotifyLoggedIn, player, currentSongIndex,
                 shuffledPlaylist, globalCurrentSongIndex,
                 globalShuffledPlaylist, skipRun, localStorage>>
  /\ UNCHANGED <<sdkVars, authRest>>
  /\ UNCHANGED volumeVars
  /\ NoLog

\* (prev + 1) % shuffledPlaylist.length
NextIndex(prev, len) ==
  IF len = 0 \/ prev = NaN THEN NaN ELSE (prev + 1) % len

\* (prev - 1 + shuffledPlaylist.length) % shuffledPlaylist.length
PrevIndex(prev, len) ==
  IF len = 0 \/ prev = NaN THEN NaN ELSE (prev - 1 + len) % len

\* handleNext / handlePrev, up to the request
SkipClick(op) ==
  /\ ControlsShown
  /\ HasPlayerAndToken
  /\ InFlight(Handlers) < MaxCalls
  /\ calls' = Add([NewCall(op, "request") EXCEPT
                               !.len = Len(shuffledPlaylist)])
  /\ UNCHANGED <<skipRun, uiVars, globalVars, sdkVars, authVars>>
  /\ UNCHANGED volumeVars
  /\ NoLog

NextClick == SkipClick("next")

PrevClick == SkipClick("prev")

\* history: the index (i + N) mod L that N consecutive skipNext calls on a
\* playlist of length L are to end on
RunAfterNext(c) ==
  IF c.live /\ c.len >= 1
  THEN IF skipRun.active
       THEN [active |-> TRUE, expect |-> (skipRun.expect + 1) % c.len]
       ELSE IF currentSongIndex \in 0..(c.len - 1)
       THEN [active |-> TRUE, expect |-> (currentSongIndex + 1) % c.len]
       ELSE NoRun
  ELSE NoRun

\* spotifyApi.skipToNext() settled
NextDone ==
  /\ \E c \in BagToSet(calls) : \E st \in Statuses :
       /\ c.op = "next"
       /\ currentSongIndex' =
            IF st = 200
            THEN SetState(c, currentSongIndex,
                          NextIndex(currentSongIndex, c.len))
            ELSE currentSongIndex
       /\ skipRun' = RunAfterNext(c)
       /\ calls' = Remove(c)
       /\ authError' = (authError \/ Unauthenticated(st))
  /\ UNCHANGED <<mounted, isSpotifyLoggedIn, player, isPlaying,
                 shuffledPlaylist, localStorage>>
  /\ UNCHANGED <<globalVars, sdkVars, authRest>>
  /\ UNCHANGED volumeVars
  /\ NoLog

\* spotifyApi.skipToPrevious() settled
PrevDone ==
  /\ \E c \in BagToSet(calls) : \E st \in Statuses :
       /\ c.op = "prev"
       /\ currentSongIndex' =
            IF st = 200
            THEN SetState(c, currentSongIndex,
                          PrevIndex(currentSongIndex, c.len))
            ELSE currentSongIndex
       /\ skipRun' = NoRun
       /\ calls' = Remove(c)
       /\ authError' = (authError \/ Unauthenticated(st))
  /\ UNCHANGED <<mounted, isSpotifyLoggedIn, player, isPlaying,
                 shuffledPlaylist, localStorage>>
  /\ UNCHANGED <<globalVars, sdkVars, authRest>>
  /\ UNCHANGED volumeVars
  /\ NoLog

\* history: the selections for another row that have not written yet learn
\* that index was clicked after them
Overtaken(c, index) ==
  IF c.op = "song" /\ c.index # index /\ c.pc \in {"state", "resolve", "play"}
  THEN [c EXCEPT !.newer = index]
  ELSE c

\* the requests in flight after a click on a row: handleSongClick has no
\* handle on the requests of earlier clicks and leaves them running
AfterSongClick_CancelOlder(new) ==
  [c \in {d \in BagToSet(calls) : d.op # "song"} |-> CopiesIn(c, calls)]
    (+) SetToBag({new})

AfterSongClick(new) ==
  BagOfAll(LAMBDA c : Overtaken(c, new.index), calls) (+) SetToBag({new})

\* handleSongClick(index) with a player: up to player.getCurrentState().
\* The rows of the track list are those of shuffledPlaylist.
SongClick ==
  /\ ControlsShown
  /\ HasPlayerAndToken
  /\ InFlight(Handlers) < MaxCalls
  /\ \E index \in 0..(Len(shuffledPlaylist) - 1) :
       calls' = AfterSongClick([NewCall("song", "state") EXCEPT
                                  !.index = index,
                                  !.trackId = shuffledPlaylist[index + 1]])
  /\ NoSelection
  /\ UNCHANGED <<skipRun, uiVars, globalVars, sdkVars, authVars>>
  /\ UNCHANGED volumeVars
  /\ NoReload

\* handleSongClick(index) without a player: only the selection changes
SongClickNoPlayer ==
  /\ ControlsShown
  /\ ~player
  /\ Truthy(localStorage.spotify_access_token)
  /\ \E index \in 0..(Len(shuffledPlaylist) - 1) :
       /\ currentSongIndex' = index
       /\ globalCurrentSongIndex' = index
       /\ NoSelection
  /\ skipRun' = NoRun
  /\ UNCHANGED <<mounted, isSpotifyLoggedIn, player, isPlaying,
                 shuffledPlaylist, globalIsPlaying, globalShuffledPlaylist,
                 calls>>
  /\ UNCHANGED <<sdkVars, authVars>>
  /\ UNCHANGED volumeVars
  /\ NoReload

\* setCurrentSongIndex(index); globalCurrentSongIndex = index
Select(c) ==
  /\ currentSongIndex' = SetState(c, currentSongIndex, c.index)
  /\ globalCurrentSongIndex' = c.index
  /\ selectLog' = Selected(c)
  /\ skipRun' = NoRun

\* getDeviceId(): the device of the player state, else the stored device
\* id; "" stands for the getMyDevices() that is awaited when both are missing
DeviceIdOrLookup(stateDev, storedDev) ==
  IF Truthy(stateDev) THEN stateDev
  ELSE IF ~Truthy(storedDev) THEN ""
  ELSE storedDev

\* player.getCurrentState() settled, then getDeviceId() up to its await
SongState ==
  /\ \E c \in BagToSet(calls) :
     \E rejected \in BOOLEAN, stateDev \in {NULL, "web"} :
       LET d == DeviceIdOrLookup(stateDev, localStorage.spotify_device_id)
       IN
       /\ c.op = "song" /\ c.pc = "state"
       /\ IF rejected
          THEN /\ Select(c)
               /\ calls' = Remove(c)
          ELSE /\ calls' = IF d = ""
                           THEN Replace(c, [c EXCEPT !.pc = "resolve"])
                           ELSE Replace(c, [c EXCEPT !.pc = "play", !.dev = d])
               /\ UNCHANGED <<currentSongIndex, globalCurrentSongIndex,
                              skipRun>>
               /\ NoSelection
  /\ UNCHANGED <<mounted, isSpotifyLoggedIn, player, isPlaying,
                 shuffledPlaylist, globalIsPlaying, globalShuffledPlaylist>>
  /\ UNCHANGED <<sdkVars, authVars>>
  /\ UNCHANGED volumeVars
  /\ NoReload

\* getDeviceId() after getMyDevices(): the active device, else the first
ResolveDevice(devices) ==
  IF Truthy(ActiveDeviceId(devices)) THEN ActiveDeviceId(devices)
  ELSE IF Len(devices) > 0 THEN devices[1].id
  ELSE NULL

\* getMyDevices() of getDeviceId() settled: play on the device found.
\* The ready listener stores spotify_device_id before it loads the playlist
\* and nothing removes it, so a listed track is never clicked without a
\* stored device id: this step is not reached and is not part of NextSong.
SongResolve ==
  /\ \E c \in BagToSet(calls) : \E r \in DeviceResponses :
       LET d == IF r.ok THEN ResolveDevice(r.devices) ELSE NULL
       IN
       /\ c.op = "song" /\ c.pc = "resolve"
       /\ IF Truthy(d)
          THEN /\ calls' = Replace(c, [c EXCEPT !.pc = "play", !.dev = d])
               /\ UNCHANGED <<currentSongIndex, globalCurrentSongIndex,
                              skipRun>>
               /\ NoSelection
          ELSE /\ Select(c)
               /\ calls' = Remove(c)
  /\ UNCHANGED <<mounted, isSpotifyLoggedIn, player, isPlaying,
                 shuffledPlaylist, globalIsPlaying, globalShuffledPlaylist>>
  /\ UNCHANGED <<sdkVars, authVars>>
  /\ UNCHANGED volumeVars
  /\ NoReload

\* the selection after spotifyApi.play({uris, device_id}) settled: every
\* branch (success, 404, 403, other) records the clicked index
SelectedAfterPlay_OnlyOnSuccess(st, index, old) ==
  IF st = 200 THEN index ELSE old

SelectedAfterPlay(st, index, old) == index

\* spotifyApi.play({uris, device_id}) settled
SongPlayDone ==
  /\ \E c \in BagToSet(calls) : \E st \in Statuses :
       /\ c.op = "song" /\ c.pc = "play"
       /\ currentSongIndex' =
            SetState(c, currentSongIndex,
                     SelectedAfterPlay(st, c.index, currentSongIndex))
       /\ globalCurrentSongIndex' =
            SelectedAfterPlay(st, c.index, globalCurrentSongIndex)
       /\ selectLog' = Selected(c)
       /\ IF st = 200
          THEN /\ isPlaying' = SetState(c, isPlaying, TRUE)
               /\ globalIsPlaying' = TRUE
          ELSE UNCHANGED <<isPlaying, globalIsPlaying>>
       /\ calls' = IF st = 404
                   THEN Replace(c, [c EXCEPT !.pc = "reresolve",
                                              !.reresolves = c.reresolves + 1,
                                              !.newer = -1])
                   ELSE Remove(c)
       /\ authError' = (authError \/ Unauthenticated(st))
  /\ skipRun' = NoRun
  /\ UNCHANGED <<mounted, isSpotifyLoggedIn, player, shuffledPlaylist,
                 globalShuffledPlaylist, localStorage>>
  /\ UNCHANGED <<sdkVars, authRest>>
  /\ UNCHANGED volumeVars
  /\ NoReload

\* the device of the retry: response.devices.find(d => d.is_active)
RetryDevice(devices) == ActiveDeviceId(devices)

\* getMyDevices() of the 404 branch settled: retry on the active device
SongReresolve ==
  /\ \E c \in BagToSet(calls) : \E r \in DeviceResponses :
       LET d == IF r.ok /\ Len(r.devices) > 0 THEN RetryDevice(r.devices)
                ELSE NULL
       IN
       /\ c.op = "song" /\ c.pc = "reresolve"
       /\ calls' = IF Truthy(d)
                   THEN Replace(c, [c EXCEPT !.pc = "retry", !.dev = d,
                                              !.fresh = r.devices,
                                              !.retries = c.retries + 1])
                   ELSE Remove(c)
  /\ UNCHANGED <<skipRun, uiVars, globalVars, sdkVars, authVars>>
  /\ UNCHANGED volumeVars
  /\ NoLog

\* the requests in flight after the retry settled: its callbacks only log
\* and set the playing flag, the call is over
AfterRetry_Again(c, st) ==
  IF st = 404
  THEN Replace(c, [c EXCEPT !.pc = "reresolve",
                            !.reresolves = c.reresolves + 1])
  ELSE Remove(c)

AfterRetry(c, st) == Remove(c)

\* the second spotifyApi.play({uris, device_id}) settled
SongRetryDone ==
  /\ \E c \in BagToSet(calls) : \E st \in Statuses :
       /\ c.op = "song" /\ c.pc = "retry"
       /\ IF st = 200
          THEN /\ isPlaying' = SetState(c, isPlaying, TRUE)
               /\ globalIsPlaying' = TRUE
          ELSE UNCHANGED <<isPlaying, globalIsPlaying>>
       /\ calls' = AfterRetry(c, st)
       /\ authError' = (authError \/ Unauthenticated(st))
  /\ UNCHANGED <<mounted, isSpotifyLoggedIn, player, currentSongIndex,
                 shuffledPlaylist, globalCurrentSongIndex,
                 globalShuffledPlaylist, skipRun, localStorage>>
  /\ UNCHANGED <<sdkVars, authRest>>
  /\ UNCHANGED volumeVars
  /\ NoLog

(***************************************************************************)
(* Events of the playback SDK                                              *)
(***************************************************************************)
\* the 'ready' listener: the device id is stored and loadPlaylist() asks
\* for the playlist
ReadyEvent ==
  /\ InFlight({"getPlaylist"}) < MaxLoads
  /\ \E l \in listeners :
       calls' = Add([NewCall("getPlaylist", "request") EXCEPT
                                 !.live = l.live, !.index = l.index])
  /\ localStorage' = [localStorage EXCEPT !.spotify_device_id = "web"]
  /\ UNCHANGED <<skipRun, uiVars, globalVars, sdkVars, authRest, authError>>
  /\ volumeRequest' = VolumeRequest(InitialVolume)   \* `volume` of the mount
  /\ UNCHANGED volume
  /\ NoLog

\* data.tracks.items.filter(item => item && item.track).map(item => item.track)
Tracklist(items) == SelectSeq(items, LAMBDA t : t # 0)

\* Math.floor(Math.random() * shuffled.length)
RandomIndex(len) == IF len = 0 THEN {0} ELSE 0..(len - 1)

\* if (globalShuffledPlaylist.length === 0)
NoGlobalData_Always(cached) == TRUE

NoGlobalData(cached) == Len(cached) = 0

\* spotifyApi.getPlaylist() settled
PlaylistLoaded ==
  /\ \E c \in BagToSet(calls) : \E ok \in BOOLEAN, items \in PlaylistItems :
       /\ c.op = "getPlaylist"
       /\ calls' = Remove(c)
       /\ IF ~ok
          THEN /\ UNCHANGED <<shuffledPlaylist, currentSongIndex, isPlaying,
                              globalVars>>
               /\ NoReload
          ELSE IF NoGlobalData(globalShuffledPlaylist)
          THEN \E shuffled \in Shuffles(Tracklist(items)) :
               \E r \in RandomIndex(Len(shuffled)) :
                 /\ shuffleLog' = [computed |-> TRUE, reused |-> FALSE]
                 /\ shuffledPlaylist' = SetState(c, shuffledPlaylist, shuffled)
                 /\ globalShuffledPlaylist' = shuffled
                 /\ currentSongIndex' = SetState(c, currentSongIndex, r)
                 /\ globalCurrentSongIndex' = c.index
                 /\ UNCHANGED <<isPlaying, globalIsPlaying>>
          ELSE /\ shuffledPlaylist' =
                    SetState(c, shuffledPlaylist, globalShuffledPlaylist)
               /\ currentSongIndex' =
                    SetState(c, currentSongIndex, globalCurrentSongIndex)
               /\ isPlaying' =
                    IF globalIsPlaying THEN SetState(c, isPlaying, TRUE)
                    ELSE isPlaying
               /\ UNCHANGED globalVars
               /\ shuffleLog' = [shuffleLog EXCEPT !.reused = TRUE]
  /\ skipRun' = NoRun
  /\ UNCHANGED <<mounted, isSpotifyLoggedIn, player>>
  /\ UNCHANGED <<sdkVars, authVars>>
  /\ UNCHANGED volumeVars
  /\ NoSelection

\* shuffledPlaylist.findIndex(track => track.id === currentTrackId)
FindIndex(playlist, id) ==
  IF \E k \in 1..Len(playlist) : playlist[k] = id
  THEN (CHOOSE k \in 1..Len(playlist) :
          playlist[k] = id /\ \A j \in 1..(k - 1) : playlist[j] # id) - 1
  ELSE -1

\* the player_state_changed listener of a player, for a non-null state;
\* track 0 is a state without a current track
PlayerStateChanged ==
  /\ \E l \in listeners : \E paused \in BOOLEAN, track \in Tracks \cup {0} :
       LET k == FindIndex(l.playlist, track) IN
       /\ isPlaying' = SetState(l, isPlaying, ~paused)
       /\ globalIsPlaying' = ~paused
       /\ IF track # 0 /\ k # -1
          THEN /\ currentSongIndex' = SetState(l, currentSongIndex, k)
               /\ globalCurrentSongIndex' = k
               /\ skipRun' = NoRun
          ELSE UNCHANGED <<currentSongIndex, globalCurrentSongIndex, skipRun>>
  /\ UNCHANGED <<mounted, isSpotifyLoggedIn, player, shuffledPlaylist,
                 globalShuffledPlaylist, calls>>
  /\ UNCHANGED <<sdkVars, authVars>>
  /\ UNCHANGED volumeVars
  /\ NoLog

(***************************************************************************)
(* The volume slider                                                       *)
(***************************************************************************)
\* <input type="range" min="0" max="100">
RangeMin == 0

RangeMax == 100

\* what is asked of the slider: below, at and above its ends, and between
SliderValues == {-1, 0, 50, 100, 150}

\* e.target.value: a range input keeps its value within min..max
RangeValue(raw) ==
  NumToString(IF raw < RangeMin THEN RangeMin
              ELSE IF raw > RangeMax THEN RangeMax
              ELSE raw)

\* the onChange handler of the slider
VolumeInput(raw) ==
  LET newVolume == ParseNum(RangeValue(raw)) IN
  /\ ControlsShown
  /\ volume' = newVolume
  /\ volumeRequest' = IF HasPlayerAndToken THEN VolumeRequest(newVolume)
                      ELSE volumeRequest
  /\ UNCHANGED <<uiVars, globalVars, sdkVars, callVars, authVars>>
  /\ NoLog

VolumeChange == \E raw \in SliderValues : VolumeInput(raw)

(***************************************************************************)
(* Specifications                                                          *)
(***************************************************************************)
Init ==
  /\ localStorage = EmptyStorage
  /\ now = 0
  /\ logins = {}
  /\ exchanges = {}
  /\ lastCallback = NoCallback
  /\ csrfConsumed = FALSE
  /\ lastExchange = NoExchange
  /\ lastLogin = NoLogin
  /\ authError = FALSE
  /\ observed = NoPage
  /\ mounted = FALSE
  /\ isSpotifyLoggedIn = FALSE
  /\ player = FALSE
  /\ isPlaying = FALSE
  /\ currentSongIndex = 0
  /\ shuffledPlaylist = <<>>
  /\ globalIsPlaying = FALSE
  /\ globalCurrentSongIndex = 0
  /\ globalShuffledPlaylist = <<>>
  /\ onSdkReady = NoClosure
  /\ scriptPending = FALSE
  /\ listeners = {}
  /\ calls = EmptyBag
  /\ skipRun = NoRun
  /\ volume = InitialVolume
  /\ volumeRequest = NoVolumeRequest
  /\ shuffleLog = NoShuffle
  /\ selectLog = NoSelect

NextAuth ==
  \/ BeginLogin
  \/ LoginResume
  \/ CallbackPage
  \/ SpotifyCallbackPage
  \/ ExchangeComplete

SpecAuth == Init /\ [][NextAuth]_vars

NextNavigation ==
  \/ BeginLogin
  \/ LoginResume
  \/ ExchangeComplete
  \/ ObservedCallbackPage
  \/ ObservedSpotifyCallbackPage
  \/ NavigationTimer

\* the token request of the observed page is answered
ObservedExchangeComplete == ExchangeComplete /\ observed' # observed

\* The login flow of one tab, which shows one callback page at a time, with
\* the navigation of the callback pages.  fetch()
\* settles every request, by a response or by a rejection that
\* getAccessToken catches, and the event loop runs every timer: neither page
\* clears the timers it sets.
SpecNavigation ==
  /\ Init
  /\ [][NextNavigation]_vars
  /\ WF_vars(ObservedExchangeComplete)
  /\ WF_vars(NavigationTimer)

\* A login in progress: getSpotifyLoginUrl stored V1 and S1, the callback
\* came back with state S1 and its token request is in flight.
InitToken ==
  /\ localStorage = [EmptyStorage EXCEPT !.spotify_code_verifier = "V1"]
  /\ now = 0
  /\ logins = {}
  /\ exchanges = {[code |-> "abc123", state |-> "S1", error |-> NULL,
                   codeVerifier |-> "V1"]}
  /\ lastCallback = [result |-> "exchanging", replay |-> FALSE,
                     given |-> TRUE, stored |-> TRUE]
  /\ csrfConsumed = TRUE
  /\ lastExchange = NoExchange
  /\ lastLogin = [NoLogin EXCEPT !.verifier = "V1", !.state = "S1"]
  /\ authError = FALSE
  /\ observed = NoPage
  /\ mounted = FALSE
  /\ isSpotifyLoggedIn = FALSE
  /\ player = FALSE
  /\ isPlaying = FALSE
  /\ currentSongIndex = 0
  /\ shuffledPlaylist = <<>>
  /\ globalIsPlaying = FALSE
  /\ globalCurrentSongIndex = 0
  /\ globalShuffledPlaylist = <<>>
  /\ onSdkReady = NoClosure
  /\ scriptPending = FALSE
  /\ listeners = {}
  /\ calls = EmptyBag
  /\ skipRun = NoRun
  /\ volume = InitialVolume
  /\ volumeRequest = NoVolumeRequest
  /\ shuffleLog = NoShuffle
  /\ selectLog = NoSelect

NextToken ==
  \/ ExchangeComplete
  \/ Tick
  \/ OpenMusicWindow
  \/ CloseMusicWindow
  \/ SdkReady
  \/ AuthenticationError

\* the token's life in storage, from the pending exchange on
SpecToken == InitToken /\ [][NextToken]_vars

\* A completed login: the token of the exchange is persisted, the verifier
\* is still stored, nothing else has happened in this page yet.
InitPlay ==
  /\ localStorage =
       [EmptyStorage EXCEPT !.spotify_code_verifier = "V1",
                            !.spotify_access_token = "tok1",
                            !.spotify_token_expiration =
                               NumToString(ExpirationTime(0, None))]
  /\ now = 0
  /\ logins = {}
  /\ exchanges = {}
  /\ lastCallback = [result |-> "exchanging", replay |-> FALSE,
                     given |-> TRUE, stored |-> TRUE]
  /\ csrfConsumed = TRUE
  /\ lastExchange = [result |-> "ok", token |-> "tok1", expiresIn |-> None,
                     at |-> 0]
  /\ lastLogin = [NoLogin EXCEPT !.verifier = "V1", !.state = "S1"]
  /\ authError = FALSE
  /\ observed = NoPage
  /\ mounted = FALSE
  /\ isSpotifyLoggedIn = FALSE
  /\ player = FALSE
  /\ isPlaying = FALSE
  /\ currentSongIndex = 0
  /\ shuffledPlaylist = <<>>
  /\ globalIsPlaying = FALSE
  /\ globalCurrentSongIndex = 0
  /\ globalShuffledPlaylist = <<>>
  /\ onSdkReady = NoClosure
  /\ scriptPending = FALSE
  /\ listeners = {}
  /\ calls = EmptyBag
  /\ skipRun = NoRun
  /\ volume = InitialVolume
  /\ volumeRequest = NoVolumeRequest
  /\ shuffleLog = NoShuffle
  /\ selectLog = NoSelect

\* what every widget specification has: the window, the SDK and its events
NextWidget ==
  \/ OpenMusicWindow
  \/ CloseMusicWindow
  \/ SdkReady
  \/ Connected
  \/ AuthenticationError
  \/ ReadyEvent
  \/ PlaylistLoaded
  \/ PlayerStateChanged

NextPlay ==
  \/ NextWidget
  \/ PlayPauseClick
  \/ PauseDone
  \/ PlayDone
  \/ PlayDevices
  \/ TransferDone
  \/ NextClick
  \/ NextDone
  \/ PrevClick
  \/ PrevDone

\* the transport buttons of a logged-in session
SpecPlay == InitPlay /\ [][NextPlay]_vars

NextSong ==
  \/ NextWidget
  \/ SongClick
  \/ SongClickNoPlayer
  \/ SongState
  \/ SongPlayDone
  \/ SongReresolve
  \/ SongRetryDone

\* the track list of a logged-in session
SpecSong == InitPlay /\ [][NextSong]_vars

NextVolume ==
  \/ NextWidget
  \/ VolumeChange

\* the volume slider of a logged-in session
SpecVolume == InitPlay /\ [][NextVolume]_vars

NextPlayback ==
  \/ NextPlay
  \/ NextSong

\* the transport buttons and the track list together
SpecPlayback == InitPlay /\ [][NextPlayback]_vars

(***************************************************************************)
(* Properties of the login flow                                            *)
(***************************************************************************)
NewExchanges == exchanges' \ exchanges

\* C1: a handleCallback call whose state parameter is absent or differs from
\* the persisted spotify_auth_state sends nothing to the token endpoint:
\* every token request that is sent belongs to a call whose state equalled
\* the value persisted when the call started.
C1_MismatchNeverExchanges ==
  [][\A x \in NewExchanges :
       x.state # NULL /\ x.state = localStorage.spotify_auth_state]_vars

\* a call with a state, a code and a stored verifier was turned away
\* because another state was persisted
C1_Witness ==
  /\ lastCallback.result = "csrf-mismatch"
  /\ lastCallback.given
  /\ lastCallback.stored
  /\ localStorage.spotify_code_verifier # NULL
  /\ exchanges = {}

\* C2: a token exchange is attempted only for callback parameters without
\* an error parameter and with a code.
C2_ExchangeOnlyWithoutError ==
  [][\A x \in NewExchanges : x.error = NULL /\ x.code # NULL]_vars

\* C3: when the music window opens, the session counts as authenticated
\* exactly if a token is persisted and its expiration lies in the future.
C3_AuthenticatedUntilExpiry ==
  [][(~mounted /\ mounted') =>
       (isSpotifyLoggedIn' <=>
          /\ Truthy(localStorage.spotify_access_token)
          /\ now < ParseNum(localStorage.spotify_token_expiration))]_vars

\* C4: once a handleCallback call has compared the persisted state it is
\* gone from storage, and until getSpotifyLoginUrl stores a new one no call
\* sends a token request.
C4_StateSingleUse ==
  /\ [](csrfConsumed => localStorage.spotify_auth_state = NULL)
  /\ [][(csrfConsumed /\ csrfConsumed') => NewExchanges = {}]_vars

\* the callback of a request in flight was delivered again and turned away
C4_Witness ==
  /\ lastCallback.replay
  /\ lastCallback.result = "csrf-mismatch"
  /\ exchanges # {}
  /\ localStorage.spotify_auth_state = NULL

\* C5: when a token exchange completes, the verifier it sent is no longer
\* in storage.
C5_VerifierSingleUse ==
  [][\A x \in exchanges \ exchanges' :
       localStorage'.spotify_code_verifier # x.codeVerifier]_vars

(***************************************************************************)
(* Properties of the widget                                                *)
(***************************************************************************)
\* the step settles request c and ends it
Ends(c) == calls' = Remove(c)

\* the step settles request c and leaves it waiting at pc
MovesTo(c, pc) ==
  \E d \in BagToSet(calls') :
    d.op = c.op /\ d.pc = pc /\ d.pc # c.pc /\ calls' = Replace(c, d)

\* C6: after an authentication error (the SDK's authentication_error or a
\* 401 answer to a transport request) and until a login completes, no
\* access token is persisted and the widget is logged out.
C6_AuthErrorLogsOut ==
  authError =>
    /\ localStorage.spotify_access_token = NULL
    /\ ~isSpotifyLoggedIn

\* C7: N consecutive skipNext calls on a playlist of length L >= 1, started
\* at index i, leave the index at (i + N) mod L, and skipPrevious at index
\* 0 leaves it at L - 1.
C7_SkipIndexModular ==
  /\ [](skipRun.active => currentSongIndex = skipRun.expect)
  /\ [][\A c \in BagToSet(calls) :
          (c.op = "prev" /\ c.live /\ c.len >= 1 /\ Ends(c)
             /\ currentSongIndex = 0)
          => currentSongIndex' = c.len - 1]_vars

\* C8: skipNext and skipPrevious move the index by one, modulo the length
\* of the playlist, whether the skip request succeeds or fails.
C8_SkipUpdatesRegardless ==
  [][\A c \in BagToSet(calls) :
       (c.op \in {"next", "prev"} /\ c.live /\ c.len >= 1 /\ Ends(c)
          /\ currentSongIndex \in 0..(c.len - 1))
       => currentSongIndex' =
            IF c.op = "next" THEN (currentSongIndex + 1) % c.len
            ELSE (currentSongIndex + c.len - 1) % c.len]_vars

SongCalls == {c \in BagToSet(calls) : c.op = "song"}

DeviceIds(devices) == {devices[k].id : k \in 1..Len(devices)}

\* C9: a track selection whose play request is answered 404 looks the
\* devices up once more, exactly once, and retries the play request at most
\* once, on a device of that fresh list; the 404 records the requested
\* track as selected, and the selection stays when no device is found or
\* the retry fails.
C9_RetryCounts ==
  \A c \in SongCalls :
    /\ c.pc \in {"state", "resolve", "play"} =>
         c.reresolves = 0 /\ c.retries = 0
    /\ c.pc = "reresolve" => c.reresolves = 1 /\ c.retries = 0
    /\ c.pc = "retry" =>
         c.reresolves = 1 /\ c.retries = 1 /\ c.dev \in DeviceIds(c.fresh)

C9_RetrySteps ==
  \A c \in SongCalls :
    /\ (c.pc = "play" /\ MovesTo(c, "reresolve")) =>
         /\ globalCurrentSongIndex' = c.index
         /\ c.live => currentSongIndex' = c.index
    /\ (c.pc = "reresolve" /\ (Ends(c) \/ MovesTo(c, "retry"))) =>
         UNCHANGED <<currentSongIndex, globalCurrentSongIndex, isPlaying,
                     globalIsPlaying>>
    /\ (c.pc = "retry" /\ Ends(c)) =>
         UNCHANGED <<currentSongIndex, globalCurrentSongIndex>>

C10_OptimisticPlayingFlag ==
  [][\A c \in BagToSet(calls) :
       (c.op \in {"pause", "play"} /\ c.pc = "request" /\ c.live
          /\ (Ends(c) \/ MovesTo(c, "devices")))
       => isPlaying' = (c.op = "play")]_vars


(***************************************************************************)
(* C11: setVolume with a percent outside 0..100 changes nothing and sends  *)
(* no request; with a percent in 0..100 the request for that percent is    *)
(* sent.                                                                   *)
(***************************************************************************)
C11_VolumeValidated ==
  [][\A raw \in SliderValues :
       VolumeInput(raw) =>
         IF raw \in RangeMin..RangeMax
         THEN volumeRequest' = VolumeRequest(raw)
         ELSE UNCHANGED <<volume, volumeRequest>>]_vars

(***************************************************************************)
(* C12: for every parameter set and every storage content, the query page  *)
(* (/callback) and the fragment page (/spotify-callback) send a token      *)
(* request in the same cases and leave the same storage.                   *)
(***************************************************************************)
C12_CallbackPagesEquivalent ==
  \A code \in Codes, state \in StateParams, error \in Errors :
    PageOutcome(CallbackPageBranch(localStorage, code, error),
                localStorage, code, state, error)
    = PageOutcome(SpotifyCallbackPageBranch(TRUE),
                  localStorage, code, state, error)

(***************************************************************************)
(* C13: a callback that carries an error parameter fails as                *)
(* provider-rejected, whatever its state parameter, and leaves neither the *)
(* stored state nor the stored code verifier behind.                       *)
(***************************************************************************)
C13_ErrorRejectsAndClears ==
  [][\A code \in Codes, state \in StateParams, error \in Errors \ {NULL} :
       (HandleCallback(code, state, error) /\ UNCHANGED logins) =>
         /\ lastCallback'.result = "provider-rejected"
         /\ localStorage'.spotify_auth_state = NULL
         /\ localStorage'.spotify_code_verifier = NULL]_vars

(***************************************************************************)
(* C14: the stored verifier and the stored state always come from one and  *)
(* the same getSpotifyLoginUrl call, and a token request carries the       *)
(* verifier of the call whose state its callback matched.                  *)
(***************************************************************************)
C14_PairStored ==
  localStorage.spotify_auth_state # NULL =>
    /\ localStorage.spotify_auth_state = lastLogin.state
    /\ localStorage.spotify_code_verifier = lastLogin.verifier

C14_VerifierOfMatchedLogin ==
  [](C14_PairStored)
  /\ [][\A x \in NewExchanges :
          /\ x.state = lastLogin.state
          /\ x.codeVerifier = lastLogin.verifier]_vars

\* a request in flight for the second of two logins, a third one suspended
C14_Witness ==
  /\ \E x \in exchanges :
       /\ x.state = lastLogin.state
       /\ x.codeVerifier = lastLogin.verifier
       /\ x.codeVerifier = "V2"
  /\ lastLogin.prev # NULL
  /\ lastLogin.prev # lastLogin.state
  /\ logins # {}

(***************************************************************************)
(* C15: a token request that is answered with a non-success status, or     *)
(* that throws, ends as exchange-failed and leaves the stored access token *)
(* and the stored expiration as they were.                                 *)
(***************************************************************************)
C15_FailedExchangeKeepsToken ==
  [][(/\ exchanges' # exchanges
      /\ exchanges' \subseteq exchanges
      /\ lastExchange'.result = "exchange-failed") =>
       /\ localStorage'.spotify_access_token = localStorage.spotify_access_token
       /\ localStorage'.spotify_token_expiration =
            localStorage.spotify_token_expiration]_vars

\* the token of an earlier login survived a failed exchange
C15_Witness ==
  /\ lastExchange.result = "exchange-failed"
  /\ localStorage.spotify_access_token = "tok1"
  /\ localStorage.spotify_token_expiration # NoNumber

(***************************************************************************)
(* C16: after a successful exchange answered {access_token: T,             *)
(* expires_in: E} the stored token is T and the stored expiration is the   *)
(* time of completion plus E seconds, in milliseconds, for every E.        *)
(***************************************************************************)
C16_ExpiryIsNowPlusExpiresIn ==
  [][(/\ exchanges' # exchanges
      /\ exchanges' \subseteq exchanges
      /\ lastExchange'.result = "ok"
      /\ lastExchange'.expiresIn # None) =>
       /\ localStorage'.spotify_access_token = lastExchange'.token
       /\ ParseNum(localStorage'.spotify_token_expiration) =
            lastExchange'.at + lastExchange'.expiresIn[1] * 1000]_vars

(***************************************************************************)
(* C17: a getSpotifyLoginUrl call that completes leaves its own verifier   *)
(* and state in storage, whatever was pending before, and a callback that  *)
(* carries the state of the login before it ends as a state mismatch and   *)
(* sends no token request.                                                 *)
(***************************************************************************)
C17_LoginOverwritesPending ==
  /\ [][(logins' # logins /\ logins' \subseteq logins) =>
          /\ localStorage'.spotify_code_verifier \in logins \ logins'
          /\ localStorage'.spotify_auth_state = lastLogin'.state
          /\ lastLogin'.state # NULL]_vars
  /\ [][(/\ lastLogin.prev # NULL
          /\ lastLogin.prev # lastLogin.state
          /\ UNCHANGED <<logins, lastLogin>>
          /\ csrfConsumed') =>
           \A code \in Codes, error \in Errors :
             HandleCallback(code, lastLogin.prev, error) =>
               /\ lastCallback'.result = "csrf-mismatch"
               /\ NewExchanges = {}]_vars

\* after two logins with different states, the callback that met the stored
\* state of the second carried the state of the first
C17_Witness ==
  /\ csrfConsumed
  /\ lastCallback.result = "csrf-mismatch"
  /\ lastCallback.given
  /\ lastCallback.stored
  /\ lastLogin.prev # NULL
  /\ lastLogin.prev # lastLogin.state
  /\ localStorage.spotify_code_verifier = lastLogin.verifier
  /\ exchanges = {}

(***************************************************************************)
(* C18: a request is sent to the provider only while an access token is    *)
(* stored and the stored expiration lies in the future.                    *)
(***************************************************************************)
\* the positions of a call in which a Web API request is outstanding
ProviderPcs ==
  {"request", "devices", "transfer", "play", "resolve", "reresolve", "retry"}

ValidToken ==
  /\ Truthy(localStorage.spotify_access_token)
  /\ now < ParseNum(localStorage.spotify_token_expiration)

RequestSent ==
  \/ /\ mounted' = mounted
     /\ \E d \in BagToSet(calls') :
          d.pc \in ProviderPcs /\ CopiesIn(d, calls') > CopiesIn(d, calls)
  \/ volumeRequest' # volumeRequest

C18_RequestsNeedValidToken == [][RequestSent => ValidToken]_vars

(***************************************************************************)
(* C19: when an authentication error occurs, the cached playback state is  *)
(* discarded: the module-level playing flag, track index and shuffled      *)
(* playlist are back at their initial values and no device id is stored.   *)
(***************************************************************************)
CacheDiscarded ==
  /\ globalIsPlaying = FALSE
  /\ globalCurrentSongIndex = 0
  /\ globalShuffledPlaylist = <<>>
  /\ localStorage.spotify_device_id = NULL

C19_AuthErrorDiscardsCache == [][(~authError /\ authError') => CacheDiscarded']_vars

(***************************************************************************)
(* C20: whenever the playing flag is set, an access token is stored and a  *)
(* device has been registered.                                             *)
(***************************************************************************)
C20_PlayingNeedsTokenAndDevice ==
  isPlaying =>
    /\ Truthy(localStorage.spotify_access_token)
    /\ Truthy(localStorage.spotify_device_id)

(***************************************************************************)
(* C21: a play call, from the play button or from the track list, looks    *)
(* the devices up again at most once and retries at most once, so it sends *)
(* at most two play or transfer requests; every settled request moves the  *)
(* call forward or ends it, and nothing follows the retry.                 *)
(***************************************************************************)
PlayCalls == {c \in BagToSet(calls) : c.op \in {"play", "song"}}

\* the order of the positions of a play call
Rank(pc) ==
  CASE pc \in {"state"} -> 0
    [] pc \in {"resolve"} -> 1
    [] pc \in {"request", "play"} -> 2
    [] pc \in {"devices", "reresolve"} -> 3
    [] pc \in {"transfer", "retry"} -> 4

\* play and transfer requests sent so far by call c
PlayRequests(c) == (IF Rank(c.pc) >= 2 THEN 1 ELSE 0) + c.retries

C21_Bounded ==
  \A c \in PlayCalls :
    /\ c.reresolves <= 1
    /\ c.retries <= 1
    /\ PlayRequests(c) <= 2
    /\ c.reresolves = (IF Rank(c.pc) >= 3 THEN 1 ELSE 0)
    /\ c.retries = (IF Rank(c.pc) >= 4 THEN 1 ELSE 0)

C21_Forward ==
  \A c \in PlayCalls :
    CopiesIn(c, calls') < CopiesIn(c, calls) =>
      \/ Ends(c)
      \/ \E pc \in ProviderPcs : MovesTo(c, pc) /\ Rank(pc) > Rank(c.pc)
      \/ mounted' # mounted
      \/ InFlight(Handlers)' > InFlight(Handlers)   \* a click: nothing settled

C21_PlayCallsBounded == []C21_Bounded /\ [][C21_Forward]_vars

\* the transfer of a play button call and the retry of a track selection
\* are in flight together
C21_Witness ==
  /\ \E c \in PlayCalls :
       c.op = "play" /\ c.pc = "transfer" /\ c.reresolves = 1 /\ c.retries = 1
  /\ \E c \in PlayCalls :
       c.op = "song" /\ c.pc = "retry" /\ c.reresolves = 1 /\ c.retries = 1

(***************************************************************************)
(* C22: wherever a device is picked from the device list of the provider,  *)
(* it is the device flagged active when there is one, else the first of    *)
(* the list, and none only when the list is empty.                         *)
(***************************************************************************)
ActiveElseFirst(devices) ==
  IF Truthy(ActiveDeviceId(devices)) THEN ActiveDeviceId(devices)
  ELSE IF Len(devices) > 0 THEN devices[1].id
  ELSE NULL

\* what the call site at which c waits for the device list picks from it
SitePick(c, devices) ==
  CASE c.pc = "resolve" -> ResolveDevice(devices)
    [] c.pc = "reresolve" ->
         IF Len(devices) > 0 THEN RetryDevice(devices) ELSE NULL
    [] c.pc = "devices" -> FirstDevice(devices)

C22_ActiveElseFirst ==
  \A c \in PlayCalls :
    /\ c.pc \in {"transfer", "retry"} => c.dev = ActiveElseFirst(c.fresh)
    /\ c.pc \in {"resolve", "reresolve", "devices"} =>
         \A devices \in DeviceLists :
           SitePick(c, devices) = ActiveElseFirst(devices)

(***************************************************************************)
(* Properties of the cached playlist                                       *)
(***************************************************************************)
\* C23: once loadPlaylist has computed a shuffled order, the cached order
\* (globalShuffledPlaylist) never changes again, whatever is loaded after
\* the music window is closed and reopened.
C23_ShuffleStableOnceComputed ==
  [][shuffleLog.computed =>
       globalShuffledPlaylist' = globalShuffledPlaylist]_vars

\* C23, for an order with at least one track: once the cached order is not
\* empty it never changes again; a load after the window was reopened takes
\* it as it is.
C23_NonEmptyOrderStable ==
  [][globalShuffledPlaylist # <<>> =>
       globalShuffledPlaylist' = globalShuffledPlaylist]_vars

\* the window was reopened after the shuffle and a later load took the
\* cached order
C23_Witness ==
  /\ shuffleLog.computed
  /\ shuffleLog.reused
  /\ mounted
  /\ \E l \in listeners : ~l.live
  /\ Len(globalShuffledPlaylist) = NumTracks
  /\ shuffledPlaylist = globalShuffledPlaylist

(***************************************************************************)
(* Properties of the callback pages                                        *)
(***************************************************************************)
\* C24: handleCallback hands every failure to its caller as a null result,
\* and every run of a callback page, whatever branch it takes (token stored,
\* error parameter, state mismatch, no code, no verifier, failed exchange),
\* eventually ends in router.push('/').
C24_EveryPageRunGoesHome ==
  /\ [](observed.pc \in {"none", "awaiting", "timer", "home"})
  /\ (observed.pc \in {"awaiting", "timer"}) ~> (observed.pc = "home")

\* app/callback waited for a token request that failed, showed the error and
\* went to '/' when its timer ran
C24_Witness ==
  /\ observed.page = "callback"
  /\ observed.branch = "exchange-failed"
  /\ observed.pc = "home"

(***************************************************************************)
(* Properties of concurrent track selections                               *)
(***************************************************************************)
\* the step is the one in which selection c writes its index: its play
\* request settled, or its getCurrentState() was rejected
WritesSelection(c) ==
  \/ c.pc = "play" /\ (Ends(c) \/ MovesTo(c, "reresolve"))
  \/ c.pc = "state" /\ Ends(c)

\* C25: a click on a row leaves the selections in flight running, and a
\* selection that settles writes its own index into the cached selection
\* whatever was clicked after it: the last writer wins, also when it is the
\* older request.
C25_LastWriteWins ==
  /\ [][SongClick => InFlight({"song"})' = InFlight({"song"}) + 1]_vars
  /\ [][\A c \in SongCalls :
          WritesSelection(c) =>
            /\ globalCurrentSongIndex' = c.index
            /\ c.live => currentSongIndex' = c.index]_vars

\* two selections were in flight, the later click has settled, the earlier
\* one wrote last and its row is the one shown
C25_Witness ==
  /\ selectLog.newer # -1
  /\ selectLog.newer # selectLog.index
  /\ SongCalls = {}
  /\ mounted
  /\ currentSongIndex = selectLog.index
  /\ globalCurrentSongIndex = selectLog.index

(***************************************************************************)
(* Properties of the code verifier                                         *)
(***************************************************************************)
\* the unreserved characters of a PKCE code verifier: A-Z a-z 0-9 - . _ ~
UnreservedCharacters ==
  {"A", "B", "C", "D", "E", "F", "G", "H", "I", "J", "K", "L", "M", "N",
   "O", "P", "Q", "R", "S", "T", "U", "V", "W", "X", "Y", "Z", "a", "b",
   "c", "d", "e", "f", "g", "h", "i", "j", "k", "l", "m", "n", "o", "p",
   "q", "r", "s", "t", "u", "v", "w", "x", "y", "z", "0", "1", "2", "3",
   "4", "5", "6", "7", "8", "9", "-", ".", "_", "~"}

\* C26: the code verifier that getSpotifyLoginUrl persists has exactly 128
\* characters, which is within 43..128, and every one of them is a letter, a
\* digit, '-', '.', '_' or '~'.
C26_VerifierWellFormed ==
  localStorage.spotify_code_verifier # NULL =>
    LET text == CodeVerifierText[localStorage.spotify_code_verifier] IN
    /\ Len(text) = 128
    /\ Len(text) \in 43..128
    /\ \A i \in 1..Len(text) : text[i] \in UnreservedCharacters

\* getSpotifyLoginUrl persisted V2, whose draws include the first and the
\* last character of the alphabet
C26_Witness ==
  /\ lastLogin.verifier = "V2"
  /\ localStorage.spotify_code_verifier = "V2"
  /\ \E i \in 1..VerifierLength : CodeVerifierText["V2"][i] = "A"
  /\ \E i \in 1..VerifierLength : CodeVerifierText["V2"][i] = "~"

(***************************************************************************)
(* Properties of concurrent callbacks                                      *)
(***************************************************************************)
\* a handleCallback call with these parameters is suspended on its token
\* request, and no login has stored a state since it ran
Duplicate(code, state, error) ==
  /\ csrfConsumed
  /\ \E x \in exchanges : x.code = code /\ x.state = state /\ x.error = error

\* C27: a callback that is processed again while the first processing is
\* still waiting for the token endpoint (the effect of the callback page
\* running twice, or two handleCallback calls with the same parameters) fails
\* the state check and sends no token request: of the two, at most one
\* reaches the token endpoint.
C27_DuplicateCallbackSendsNothing ==
  [][\A code \in Codes, state \in StateParams, error \in Errors :
       (Duplicate(code, state, error) /\ HandleCallback(code, state, error))
         => /\ lastCallback'.result = "csrf-mismatch"
            /\ exchanges' = exchanges]_vars

\* the callback of the most recent login was processed twice: the first
\* call is waiting for its token, the second was turned away
C27_Witness ==
  /\ lastCallback.replay
  /\ lastCallback.given
  /\ lastCallback.result = "csrf-mismatch"
  /\ Cardinality(exchanges) = 1
  /\ \A x \in exchanges :
       x.state = lastLogin.state /\ x.codeVerifier = lastLogin.verifier

(***************************************************************************)
(* Properties of the persisted token                                       *)
(***************************************************************************)
\* C28: storage holds spotify_access_token exactly when it holds
\* spotify_token_expiration: after any exchange, token save or
\* authentication error the two keys are present together or absent
\* together.
C28_TokenAndExpirationTogether ==
  (localStorage.spotify_access_token = NULL)
    <=> (localStorage.spotify_token_expiration = NoNumber)

(***************************************************************************)
(* Properties of the current song index                                    *)
(***************************************************************************)
\* C29: whenever an operation of the open music window changes its current
\* song index (the first shuffle, skipNext, skipPrevious, a track
\* selection, a player state event), globalCurrentSongIndex holds the same
\* index afterwards, so that a reopened window starts at the track shown
\* last.
C29_GlobalIndexFollows ==
  [][(mounted /\ mounted' /\ currentSongIndex' # currentSongIndex) =>
       globalCurrentSongIndex' = currentSongIndex']_vars

\* C30: the current song index is always a position: it is an integer, and
\* when the shuffled playlist has L >= 1 tracks it lies in 0..L-1, also
\* after skips that complete while the playlist is empty.
C30_IndexIsAPosition ==
  /\ currentSongIndex # NaN
  /\ currentSongIndex \in Int
  /\ Len(shuffledPlaylist) >= 1 =>
       currentSongIndex \in 0..(Len(shuffledPlaylist) - 1)

=========================================================================
